---- MODULE Spec2Model ----
(***************************************************************************)
(* The Bundle sync task of pkg/controller/controller_sync_task.go:         *)
(* process() (one reconciliation pass over one Bundle) followed by         *)
(* handleProcessResult() (the fold of the outcome into the Bundle's        *)
(* conditions), run against an API server and a local store that lags it.  *)
(***************************************************************************)
EXTENDS Integers, Sequences, FiniteSets, TLC

VARIABLES
    bundle,          \* st.bundle: the Bundle snapshot (its spec; conditions are in conds)
    bundleStatus,    \* the conditions of the Bundle object held by the API server
    conds,           \* st.bundle.Status.Conditions of the snapshot of the current pass
    api,             \* the child objects held by the API server, by object reference
    store,           \* st.store: the local cache of the child objects
    pc,              \* "idle" | "loop" | "result": position of the worker
    sorted,          \* process(): the topological order
    idx,             \* process(): index of the next vertex of sorted
    readyResources,  \* st.readyResources
    procRet,         \* what process() returned: [retriable, err]
    ret,             \* what handleProcessResult() returned: [retriable, err]
    checked,         \* history: the resources given to checkResource in this pass, in order
    notReady,        \* history: the resources whose IsReady said "not ready" in this pass
    calls,           \* history: the store and API calls of this pass
    statusWrites,    \* history: the answers to the Bundle client's Update calls of this pass
    condsBefore,     \* history: the conditions handleProcessResult() was entered with
    passes           \* number of passes completed

vars == <<bundle, bundleStatus, conds, api, store, pc, sorted, idx, readyResources,
          procRet, ret, checked, notReady, calls, statusWrites, condsBefore, passes>>

-----------------------------------------------------------------------------
(* Bounds *)

MaxPasses == 2      \* passes of process()/handleProcessResult() in one behaviour
MaxUid == 2         \* distinct UIDs one object reference sees

-----------------------------------------------------------------------------
(* Data *)

Names == {"A", "B", "C"}           \* resource names
Refs  == {"x", "y", "z"}           \* object references (group/version/kind, name)
BundleName == "bundle"

\* no object (a nil pointer, an absent map entry)
NoObj == [present |-> FALSE, uid |-> 0, ctrl |-> "none", label |-> "none", spec |-> "none",
          refs |-> {}, deleting |-> FALSE, ready |-> FALSE]
NoCond == [status |-> "None", reason |-> "", message |-> ""]
CondTypes == {"InProgress", "Ready", "Error"}

\* an error value: its message, the api_errors class of its cause (errors.Cause), and
\* whether errors.Wrapf wrapped it
NoErr == [msg |-> "nil", cause |-> "None", wrapped |-> FALSE]
Err(msg, cause) == [msg |-> msg, cause |-> cause, wrapped |-> FALSE]
Wrapf(err, msg) == [msg |-> msg, cause |-> err.cause, wrapped |-> TRUE]
IsConflict(err) == err.cause = "Conflict"
IsAlreadyExists(err) == err.cause = "AlreadyExists"
IsNotFound(err) == err.cause = "NotFound"

\* the errors the collaborators answer with (the smart client, the store, the resource
\* clients, the spec check, the ready checker) carry one message, and differ in class
Failed == "failed"
Failure == Err(Failed, "Other")
Canceled == Err("context canceled", "Canceled")
DeadlineExceeded == Err("context deadline exceeded", "DeadlineExceeded")

\* a declared resource: name, dependsOn, the object reference of its spec, the
\* controller flag of an owner reference declared in the spec ("none": no declared
\* reference), the value of the bundleName label declared in the spec
Res(n, deps, ref) == [name |-> n, dependsOn |-> deps, ref |-> ref, owner |-> "none", label |-> "none"]
ResOwned(n, deps, ref, o) == [name |-> n, dependsOn |-> deps, ref |-> ref, owner |-> o, label |-> "other"]

Bundles == {
    [labels |-> "none",  resources |-> <<Res("A", <<>>, "x"), Res("B", <<"A">>, "y")>>],
    [labels |-> "none",  resources |-> <<Res("C", <<"B", "A">>, "z"), Res("B", <<"A">>, "y"), Res("A", <<>>, "x")>>],
    [labels |-> "none",  resources |-> <<Res("A", <<"B">>, "x"), Res("B", <<"A">>, "y")>>],
    [labels |-> "none",  resources |-> <<Res("A", <<"A">>, "x")>>],
    [labels |-> "none",  resources |-> <<Res("A", <<>>, "x"), Res("B", <<"C">>, "y")>>],
    [labels |-> "none",  resources |-> <<Res("A", <<>>, "x"), Res("A", <<>>, "y")>>],
    [labels |-> "another", resources |-> <<ResOwned("A", <<>>, "x", "nonController"), ResOwned("B", <<"A">>, "y", "controllerOther")>>],
    [labels |-> "none",  resources |-> <<ResOwned("A", <<>>, "x", "controllerBundle")>>],
    [labels |-> "none",  resources |-> <<>>],
    [labels |-> "none",  resources |-> <<Res("A", <<>>, "x"), Res("B", <<>>, "y")>>]
}

Range(s) == {s[i] : i \in 1..Len(s)}
Declared(b) == Range(b.resources)
DeclaredNames(b) == {r.name : r \in Declared(b)}
DeclaredRefs(b) == {r.ref : r \in Declared(b)}

\* process(), lines 43-49: resourceMap[name]; the last entry of a name wins, but a
\* second entry of a name makes process() return before the map is read
resourceMap(b, n) == CHOOSE r \in Declared(b) : r.name = n

HasDuplicateName(b) ==
    \E i, j \in 1..Len(b.resources) : i < j /\ b.resources[i].name = b.resources[j].name

-----------------------------------------------------------------------------
(* graph.Graph: vertices in declaration order, edges name -> dependsOn *)

Contains(s, e) == \E i \in 1..Len(s) : s[i] = e
AddOnce(s, e) == IF Contains(s, e) THEN s ELSE Append(s, e)

Edges(b, v) == resourceMap(b, v).dependsOn

RECURSIVE visit(_, _, _, _)
RECURSIVE visitEdges(_, _, _, _, _)
visit(b, name, results, visited) ==
    IF name \in visited
    THEN [err |-> Err("cycle error", "Other"), items |-> results]
    ELSE LET r == visitEdges(b, Edges(b, name), 1, results, visited \cup {name})
         IN  IF r.err # NoErr THEN r
             ELSE [err |-> NoErr, items |-> AddOnce(r.items, name)]
visitEdges(b, edges, i, results, visited) ==
    IF i > Len(edges) THEN [err |-> NoErr, items |-> results]
    ELSE LET r == visit(b, edges[i], results, visited)
         IN  IF r.err # NoErr THEN r
             ELSE visitEdges(b, edges, i + 1, r.items, visited)

RECURSIVE TopologicalSortFrom(_, _, _)
TopologicalSortFrom(b, i, results) ==
    IF i > Len(b.resources) THEN [err |-> NoErr, items |-> results]
    ELSE LET r == visit(b, b.resources[i].name, results, {})
         IN  IF r.err # NoErr THEN r
             ELSE TopologicalSortFrom(b, i + 1, r.items)
TopologicalSort(b) == TopologicalSortFrom(b, 1, <<>>)

\* g.AddEdge fails when an endpoint is no vertex
AddEdgeFails(b) ==
    \E r \in Declared(b) : \E i \in 1..Len(r.dependsOn) : r.dependsOn[i] \notin DeclaredNames(b)

sortBundle(b) ==
    IF AddEdgeFails(b) THEN [err |-> Err("vertex not found", "Other"), items |-> <<>>]
    ELSE TopologicalSort(b)

-----------------------------------------------------------------------------
(* Child objects.  An object of the API server or of the store is               *)
(*   [present, uid, ctrl, label, spec, refs, deleting, ready]                    *)
(* ctrl: the controller owner reference ("bundle": this Bundle, by UID; "other": *)
(* some other controller; "none"); label: the value of the bundleName label;     *)
(* spec: the body; refs: the non-controller owner references, <<ref, uid>>;       *)
(* deleting: a deletion timestamp is set; ready: what the ready checker reads.    *)

IsControlledBy(obj) == obj.ctrl = "bundle"

\* mergeLabels: later maps win; a map is modelled by its value of the bundleName key
RECURSIVE mergeLabels(_)
mergeLabels(labels) ==
    IF Len(labels) = 0 THEN "none"
    ELSE LET last == labels[Len(labels)]
         IN  IF last # "none" THEN last
             ELSE mergeLabels(SubSeq(labels, 1, Len(labels) - 1))

\* the controller flag of the owner reference a resource's spec declares
DeclaresController(res) == res.owner \in {"controllerOther", "controllerBundle"}

DeclaredRefsOf(res) == IF res.owner = "nonController" THEN {<<"external", 0>>} ELSE {}

\* an owner reference: the owner's name and UID, the controller flag, blockOwnerDeletion
OwnerReference(name, uid, controller, block) ==
    [name |-> name, uid |-> uid, controller |-> controller, block |-> block]

\* spec.GetOwnerReferences(): the references the resource's spec declares (the UIDs of the
\* Bundle and of an outside owner are not numbered: the name tells them apart)
GetOwnerReferences(res) ==
    CASE res.owner = "none"             -> <<>>
      [] res.owner = "nonController"    -> <<OwnerReference("external", 0, FALSE, FALSE)>>
      [] res.owner = "controllerOther"  -> <<OwnerReference("external", 0, TRUE, FALSE)>>
      [] res.owner = "controllerBundle" -> <<OwnerReference(BundleName, 0, TRUE, FALSE)>>

\* ownerReferences as if blockOwnerDeletion were left as declared
ownerReferencesAsDeclared(b, res, ready) ==
    GetOwnerReferences(res)
    \o <<OwnerReference(BundleName, 0, TRUE, TRUE)>>
    \o [i \in 1..Len(res.dependsOn) |->
          OwnerReference(resourceMap(b, res.dependsOn[i]).ref, ready[res.dependsOn[i]].uid, FALSE, TRUE)]

\* evalSpec, lines 132-159: the owner references set on the object
ownerReferences(b, res, ready) ==
    [i \in 1..Len(GetOwnerReferences(res)) |-> [GetOwnerReferences(res)[i] EXCEPT !.block = TRUE]]
    \o <<OwnerReference(BundleName, 0, TRUE, TRUE)>>
    \o [i \in 1..Len(res.dependsOn) |->
          OwnerReference(resourceMap(b, res.dependsOn[i]).ref, ready[res.dependsOn[i]].uid, FALSE, TRUE)]

\* meta_v1.GetControllerOf: the first reference with controller=true
GetControllerOf(refs) ==
    LET cs == {i \in 1..Len(refs) : refs[i].controller}
    IN  IF cs = {} THEN "none"
        ELSE IF refs[CHOOSE i \in cs : \A j \in cs : i <= j].name = BundleName THEN "bundle"
        ELSE "other"
\* the other references, as an object holds them
NonControllerRefs(refs) == {<<refs[i].name, refs[i].uid>> : i \in {j \in 1..Len(refs) : ~refs[j].controller}}

\* evalSpec as if it merged the labels without the bundleName entry
evalSpecWithoutBundleName(b, res, ready) ==
    IF DeclaresController(res)
    THEN [err |-> Err("cannot create resource with controller owner reference", "Other"),
          spec |-> NoObj]
    ELSE [err |-> NoErr,
          spec |-> [ctrl   |-> GetControllerOf(ownerReferences(b, res, ready)),
                    label  |-> mergeLabels(<<b.labels, res.label>>),
                    spec   |-> "new",
                    refs   |-> NonControllerRefs(ownerReferences(b, res, ready))]]

\* evalSpec: [err, spec]
evalSpec(b, res, ready) ==
    IF DeclaresController(res)
    THEN [err |-> Err("cannot create resource with controller owner reference", "Other"),
          spec |-> NoObj]
    ELSE [err |-> NoErr,
          spec |-> [ctrl   |-> GetControllerOf(ownerReferences(b, res, ready)),
                    label  |-> mergeLabels(<<b.labels, res.label, BundleName>>),
                    spec   |-> "new",
                    refs   |-> NonControllerRefs(ownerReferences(b, res, ready))]]

\* SpecCheck.CompareActualVsSpec: the desired fields win, the rest is the observed object
Merge(spec, actual) ==
    [actual EXCEPT !.ctrl = spec.ctrl, !.label = spec.label, !.spec = spec.spec, !.refs = spec.refs]

\* the UIDs an object reference must not be given again: those still seen anywhere
Present(objs) == {o \in objs : o.present}
AllObjects(a, s, ready) ==
    Present({a[r] : r \in Refs} \cup {s[r] : r \in Refs} \cup {ready[n] : n \in Names})
UsedUids(ref, a, s, ready) ==
    {o.uid : o \in Present({a[ref], s[ref]})}
    \cup {p[2] : p \in {q \in UNION {o.refs : o \in AllObjects(a, s, ready)} : q[1] = ref}}
FreshUid(ref, a, s, ready) ==
    LET free == (1..(MaxUid + 1)) \ UsedUids(ref, a, s, ready)
    IN  CHOOSE u \in free : \A w \in free : u <= w

Call(op, ref, uid) == [op |-> op, ref |-> ref, uid |-> uid]

\* the outcome of checkResource and of the operations under it:
\* [obj, retriable, err, api, calls, notReady]
Outcome(obj, retriable, err, a, cs) ==
    [obj |-> obj, retriable |-> retriable, err |-> err, api |-> a, calls |-> cs, notReady |-> FALSE]

\* AlreadyExistsError as if the answer were wrapped without being turned into a conflict
AlreadyExistsUnconverted(err) ==
    Wrapf(err, "object found, but not in Store yet (will re-process)")

\* what createResource wraps an AlreadyExists answer into, lines 194-198
AlreadyExistsError(err) ==
    Wrapf(Err(err.msg, "Conflict"), "object found, but not in Store yet (will re-process)")

\* createResource as if an unexpected answer to Create were not retried
createResourceFailingTerminally(ref, spec, fault, newReady, a, s, ready) ==
    LET cs == {Call("create", ref, 0)}
        response == [present |-> TRUE, uid |-> FreshUid(ref, a, s, ready), ctrl |-> spec.ctrl,
                     label |-> spec.label, spec |-> spec.spec, refs |-> spec.refs,
                     deleting |-> FALSE, ready |-> newReady]
    IN  IF fault = "create"
        THEN Outcome(NoObj, FALSE, Failure, a, cs)
        ELSE IF a[ref].present
        THEN Outcome(NoObj, FALSE, AlreadyExistsError(Err(Failed, "AlreadyExists")), a, cs)
        ELSE Outcome(response, FALSE, NoErr, [a EXCEPT ![ref] = response], cs)

\* createResource.  fault: the call that fails in this run; newReady: the readiness of
\* the object the server answers with
createResource(ref, spec, fault, newReady, a, s, ready) ==
    LET cs == {Call("create", ref, 0)}
        response == [present |-> TRUE, uid |-> FreshUid(ref, a, s, ready), ctrl |-> spec.ctrl,
                     label |-> spec.label, spec |-> spec.spec, refs |-> spec.refs,
                     deleting |-> FALSE, ready |-> newReady]
    IN  IF fault = "create"
        THEN Outcome(NoObj, TRUE, Failure, a, cs)
        ELSE IF a[ref].present
        THEN Outcome(NoObj, FALSE, AlreadyExistsError(Err(Failed, "AlreadyExists")), a, cs)
        ELSE Outcome(response, FALSE, NoErr, [a EXCEPT ![ref] = response], cs)

\* what updateResource returns for a Conflict answer to Update, lines 229-232
UpdateConflictError(err) == Wrapf(err, "object update resulted in conflict (will re-process)")

\* updateResource as if it updated an object whose spec matches
updateResourceAlways(ref, spec, actual, fault, a) ==
    LET updated == Merge(spec, actual)
        cs == {Call("update", ref, 0)}
    IN  IF actual.deleting
        THEN Outcome(NoObj, FALSE, Err("object is marked for deletion", "Other"), a, {})
        ELSE IF ~IsControlledBy(actual)
        THEN Outcome(NoObj, FALSE, Err("object is not owned by the Bundle", "Other"), a, {})
        ELSE IF fault = "compare"
        THEN Outcome(NoObj, FALSE, Failure, a, {})
        ELSE IF fault = "update"
        THEN Outcome(NoObj, TRUE, Failure, a, cs)
        ELSE IF ~a[ref].present
        THEN Outcome(NoObj, TRUE, Err(Failed, "NotFound"), a, cs)
        ELSE IF a[ref] # actual
        THEN Outcome(NoObj, FALSE, Wrapf(Err(Failed, "Conflict"),
                                          "object update resulted in conflict (will re-process)"), a, cs)
        ELSE Outcome(updated, FALSE, NoErr, [a EXCEPT ![ref] = updated], cs)

\* updateResource as if it did not look at the deletion timestamp and the controller
updateResourceUnguarded(ref, spec, actual, fault, a) ==
    LET updated == Merge(spec, actual)
        cs == {Call("update", ref, 0)}
    IN  IF fault = "compare"
        THEN Outcome(NoObj, FALSE, Failure, a, {})
        ELSE IF updated = actual
        THEN Outcome(updated, FALSE, NoErr, a, {})
        ELSE IF fault = "update"
        THEN Outcome(NoObj, TRUE, Failure, a, cs)
        ELSE IF ~a[ref].present
        THEN Outcome(NoObj, TRUE, Err(Failed, "NotFound"), a, cs)
        ELSE IF a[ref] # actual
        THEN Outcome(NoObj, FALSE, UpdateConflictError(Err(Failed, "Conflict")), a, cs)
        ELSE Outcome(updated, FALSE, NoErr, [a EXCEPT ![ref] = updated], cs)

\* updateResource
updateResource(ref, spec, actual, fault, a) ==
    LET updated == Merge(spec, actual)
        cs == {Call("update", ref, 0)}
    IN  IF actual.deleting
        THEN Outcome(NoObj, FALSE, Err("object is marked for deletion", "Other"), a, {})
        ELSE IF ~IsControlledBy(actual)
        THEN Outcome(NoObj, FALSE, Err("object is not owned by the Bundle", "Other"), a, {})
        ELSE IF fault = "compare"
        THEN Outcome(NoObj, FALSE, Failure, a, {})
        ELSE IF updated = actual
        THEN Outcome(updated, FALSE, NoErr, a, {})
        ELSE IF fault = "update"
        THEN Outcome(NoObj, TRUE, Failure, a, cs)
        ELSE IF ~a[ref].present
        THEN Outcome(NoObj, TRUE, Err(Failed, "NotFound"), a, cs)
        ELSE IF a[ref] # actual
        THEN Outcome(NoObj, FALSE, UpdateConflictError(Err(Failed, "Conflict")), a, cs)
        ELSE Outcome(updated, FALSE, NoErr, [a EXCEPT ![ref] = updated], cs)

\* createOrUpdate
createOrUpdate(ref, spec, fault, newReady, a, s, ready) ==
    LET get == {Call("get", ref, 0)}
        AddGet(o) == [o EXCEPT !.calls = @ \cup get]
    IN  IF fault = "client"
        THEN Outcome(NoObj, FALSE, Failure, a, {})
        ELSE IF fault = "get"
        THEN Outcome(NoObj, FALSE, Failure, a, get)
        ELSE IF s[ref].present
        THEN AddGet(updateResource(ref, spec, s[ref], fault, a))
        ELSE AddGet(createResource(ref, spec, fault, newReady, a, s, ready))

\* ReadyChecker.IsReady: [ready, retriable, err]
IsReady(obj, fault) ==
    CASE fault = "readyTerminal"  -> [ready |-> FALSE, retriable |-> FALSE, err |-> Failure]
      [] fault = "readyRetriable" -> [ready |-> FALSE, retriable |-> TRUE, err |-> Failure]
      [] fault = "readyCanceled"  -> [ready |-> FALSE, retriable |-> TRUE, err |-> Canceled]
      [] fault = "readyDeadline"  -> [ready |-> FALSE, retriable |-> FALSE, err |-> DeadlineExceeded]
      [] fault = "readyConflict"  -> [ready |-> FALSE, retriable |-> TRUE, err |-> Err(Failed, "Conflict")]
      [] OTHER                    -> [ready |-> obj.ready, retriable |-> FALSE, err |-> NoErr]

Faults == {"none", "client", "get", "create", "compare", "update", "readyTerminal",
           "readyRetriable", "readyCanceled", "readyDeadline", "readyConflict"}

\* checkResource as if it returned the object although the ready checker said not ready
checkResourceIgnoringReadiness(b, res, fault, newReady, a, s, ready) ==
    LET ev == evalSpec(b, res, ready)
        cu == createOrUpdate(res.ref, ev.spec, fault, newReady, a, s, ready)
        rc == IsReady(cu.obj, fault)
    IN  IF ev.err # NoErr
        THEN Outcome(NoObj, FALSE, ev.err, a, {})
        ELSE IF cu.err # NoErr
        THEN cu
        ELSE IF rc.err # NoErr
        THEN [cu EXCEPT !.obj = NoObj, !.retriable = rc.retriable, !.err = rc.err]
        ELSE [cu EXCEPT !.notReady = ~rc.ready]

\* checkResource
checkResource(b, res, fault, newReady, a, s, ready) ==
    LET ev == evalSpec(b, res, ready)
        cu == createOrUpdate(res.ref, ev.spec, fault, newReady, a, s, ready)
        rc == IsReady(cu.obj, fault)
    IN  IF ev.err # NoErr
        THEN Outcome(NoObj, FALSE, ev.err, a, {})
        ELSE IF cu.err # NoErr
        THEN cu
        ELSE IF rc.err # NoErr \/ ~rc.ready
        THEN [cu EXCEPT !.obj = NoObj, !.retriable = rc.retriable, !.err = rc.err,
                        !.notReady = (rc.err = NoErr)]
        ELSE cu

-----------------------------------------------------------------------------
(* Garbage collection *)

\* Store.GetObjectsForBundle: the objects of the store that carry the Bundle's name
GetObjectsForBundle(s) == {r \in Refs : s[r].present /\ s[r].label = BundleName}

\* existingObjs as if the ownership test were inverted
existingObjsNotControlled(b, s) ==
    {r \in GetObjectsForBundle(s) : ~s[r].deleting /\ ~IsControlledBy(s[r])} \ DeclaredRefs(b)

\* existingObjs as if objects marked for deletion were not skipped
existingObjsWithDeleting(b, s) ==
    {r \in GetObjectsForBundle(s) : IsControlledBy(s[r])} \ DeclaredRefs(b)

\* deleteRemovedResources, lines 245-271: the references left to delete
existingObjs(b, s) ==
    {r \in GetObjectsForBundle(s) : ~s[r].deleting /\ IsControlledBy(s[r])} \ DeclaredRefs(b)

\* the errors met while one object is collected name that object
FailedOn == [x |-> "failed on x", y |-> "failed on y", z |-> "failed on z"]
GCFailure(ref) == Err(FailedOn[ref], "Other")

\* Delete as if the call left the object as it is
DeleteWithoutEffect(ref, uid, fault, a) ==
    IF fault = "delete" THEN [err |-> GCFailure(ref), api |-> a]
    ELSE [err |-> NoErr, api |-> a]

\* resClient.Delete with a UID precondition and foreground propagation: [err, api]
Delete(ref, uid, fault, a) ==
    IF fault = "delete" THEN [err |-> GCFailure(ref), api |-> a]
    ELSE IF ~a[ref].present THEN [err |-> Err(Failed, "NotFound"), api |-> a]
    ELSE IF a[ref].uid # uid THEN [err |-> Err(Failed, "Conflict"), api |-> a]
    ELSE [err |-> NoErr, api |-> [a EXCEPT ![ref].deleting = TRUE]]

\* deleteRemovedResources, lines 278-286: ForGVK failed for one object
ClientFailed(acc, ref) ==
    IF acc.err = NoErr
    THEN [acc EXCEPT !.retriable = FALSE, !.err = GCFailure(ref)]
    ELSE acc

\* Deleted as if a later error replaced the first one
DeletedKeepingLast(acc, err) ==
    IF err # NoErr /\ ~IsNotFound(err) /\ ~IsConflict(err)
    THEN [acc EXCEPT !.err = err]
    ELSE acc

\* deleteRemovedResources, lines 294-303: the answer to one Delete
Deleted(acc, err) ==
    IF err # NoErr /\ ~IsNotFound(err) /\ ~IsConflict(err) /\ acc.err = NoErr
    THEN [acc EXCEPT !.err = err]
    ELSE acc

\* deleteRemovedResources, lines 275-304: the loop, in the order the map is ranged over
RECURSIVE deleteLoop(_, _, _, _, _)
deleteLoop(order, i, faults, s, acc) ==
    IF i > Len(order) THEN acc
    ELSE LET ref == order[i]
             uid == s[ref].uid
             d == Delete(ref, uid, faults[ref], acc.api)
         IN  IF faults[ref] = "client"
             THEN deleteLoop(order, i + 1, faults, s, ClientFailed(acc, ref))
             ELSE deleteLoop(order, i + 1, faults, s,
                             Deleted([acc EXCEPT !.api = d.api,
                                                 !.calls = @ \cup {Call("delete", ref, uid)}], d.err))

\* deleteRemovedResources: [retriable, err, api, calls]
deleteRemovedResources(b, s, a, listFails, order, faults) ==
    IF listFails
    THEN [retriable |-> FALSE, err |-> Failure, api |-> a, calls |-> {}]
    ELSE deleteLoop(order, 1, faults, s,
                    [retriable |-> TRUE, err |-> NoErr, api |-> a, calls |-> {}])

Perms(S) == {f \in [1..Cardinality(S) -> S] : \A i, j \in 1..Cardinality(S) : i # j => f[i] # f[j]}
DeleteFaults == {"none", "client", "delete"}

-----------------------------------------------------------------------------
(* Status folding *)

Cond(status, reason, message) == [status |-> status, reason |-> reason, message |-> message]

\* Bundle.UpdateCondition: whether the condition of that type changes
UpdateCondition(cs, type, cond) == cs[type] # cond

\* isBundleReady
isBundleReady(b, ready) == \A i \in 1..Len(b.resources) : ready[b.resources[i].name].present

\* handleProcessResult, lines 326-331: the cases returned before the fold
ReturnsConflict(processErr) == processErr # NoErr /\ IsConflict(processErr)
\* ReturnsContextError as if only the cancellation were tested
ReturnsCanceledOnly(processErr) == processErr = Canceled
ReturnsContextError(processErr) == processErr = Canceled \/ processErr = DeadlineExceeded

\* Fold as if any error kept the Bundle in progress
FoldInProgressOnAnyError(retriable, processErr, bundleReady) ==
    [t \in CondTypes |->
        CASE t = "InProgress" ->
                 Cond(IF (processErr = NoErr /\ ~bundleReady) \/ processErr # NoErr
                      THEN "True" ELSE "False", "", "")
          [] t = "Ready" ->
                 Cond(IF processErr = NoErr /\ bundleReady THEN "True" ELSE "False", "", "")
          [] t = "Error" ->
                 IF processErr = NoErr THEN Cond("False", "", "")
                 ELSE Cond("True", IF retriable THEN "RetriableError" ELSE "TerminalError",
                           processErr.msg)]

\* handleProcessResult, lines 332-350: the three conditions of an outcome
Fold(retriable, processErr, bundleReady) ==
    [t \in CondTypes |->
        CASE t = "InProgress" ->
                 Cond(IF (processErr = NoErr /\ ~bundleReady) \/ (processErr # NoErr /\ retriable)
                      THEN "True" ELSE "False", "", "")
          [] t = "Ready" ->
                 Cond(IF processErr = NoErr /\ bundleReady THEN "True" ELSE "False", "", "")
          [] t = "Error" ->
                 IF processErr = NoErr THEN Cond("False", "", "")
                 ELSE Cond("True", IF retriable THEN "RetriableError" ELSE "TerminalError",
                           processErr.msg)]

\* setBundleStatus as if a conflict answer were returned like any other error
setBundleStatusReturningConflict(answer) ==
    IF answer \in {"error", "conflict"} THEN Err("failed to set bundle status", "Other") ELSE NoErr

\* setBundleStatus: the error it returns for an answer of the Bundle client
setBundleStatus(answer) ==
    IF answer = "error" THEN Err("failed to set bundle status", "Other") ELSE NoErr

StatusAnswers == {"ok", "conflict", "error"}

\* StatusChanged as if the change of the Error condition were not counted
StatusChangedIgnoringError(cs, folded) ==
    \E t \in {"InProgress", "Ready"} : UpdateCondition(cs, t, folded[t])

\* handleProcessResult, line 357: whether the status is written
StatusChanged(cs, folded) == \E t \in CondTypes : UpdateCondition(cs, t, folded[t])

\* handleProcessResult as if the caller's retriable flag were kept after the write
handleProcessResultKeepingFlag(retriable, processErr, cs, bundleReady, answer) ==
    LET folded == Fold(retriable, processErr, bundleReady)
        ex == setBundleStatus(answer)
    IN  IF ReturnsConflict(processErr)
        THEN [retriable |-> retriable, err |-> processErr, conds |-> cs, wrote |-> FALSE]
        ELSE IF ReturnsContextError(processErr)
        THEN [retriable |-> FALSE, err |-> processErr, conds |-> cs, wrote |-> FALSE]
        ELSE IF ~StatusChanged(cs, folded)
        THEN [retriable |-> retriable, err |-> processErr, conds |-> folded, wrote |-> FALSE]
        ELSE IF processErr = NoErr
        THEN [retriable |-> retriable, err |-> ex, conds |-> folded, wrote |-> TRUE]
        ELSE [retriable |-> retriable, err |-> processErr, conds |-> folded, wrote |-> TRUE]

\* handleProcessResult: [retriable, err, conds, wrote]
handleProcessResult(retriable, processErr, cs, bundleReady, answer) ==
    LET folded == Fold(retriable, processErr, bundleReady)
        ex == setBundleStatus(answer)
    IN  IF ReturnsConflict(processErr)
        THEN [retriable |-> retriable, err |-> processErr, conds |-> cs, wrote |-> FALSE]
        ELSE IF ReturnsContextError(processErr)
        THEN [retriable |-> FALSE, err |-> processErr, conds |-> cs, wrote |-> FALSE]
        ELSE IF ~StatusChanged(cs, folded)
        THEN [retriable |-> retriable, err |-> processErr, conds |-> folded, wrote |-> FALSE]
        ELSE IF processErr = NoErr
        THEN [retriable |-> TRUE, err |-> ex, conds |-> folded, wrote |-> TRUE]
        ELSE [retriable |-> retriable, err |-> processErr, conds |-> folded, wrote |-> TRUE]

-----------------------------------------------------------------------------
(* The pass *)

\* DepsReady as if the loop went on to check a resource whose dependency is missing
DepsReadyUnchecked(b, v, ready) == TRUE

\* DepsReady as if only the last dependency were looked at
DepsReadyLastOnly(b, v, ready) ==
    Len(Edges(b, v)) > 0 => ready[Edges(b, v)[Len(Edges(b, v))]].present

\* process(), lines 63-68: every dependency of v is in the ready set
DepsReady(b, v, ready) ==
    \A i \in 1..Len(Edges(b, v)) : ready[Edges(b, v)[i]].present

\* processSetup as if the names were not checked for duplicates
processSetupWithoutNameCheck(b) == sortBundle(b)

\* process(), lines 42-55: [err, items]
processSetup(b) ==
    IF HasDuplicateName(b)
    THEN [err |-> Err("bundle contains two resources with the same name", "Other"), items |-> <<>>]
    ELSE sortBundle(b)

Return(retriable, err) == [retriable |-> retriable, err |-> err]

\* ReturnsError as if a retriable error of checkResource let the loop go on
ReturnsTerminalErrorOnly(retriable, err) == err # NoErr /\ ~retriable

\* process(), lines 73-75: the error of checkResource ends the pass
ReturnsError(retriable, err) == err # NoErr

\* process(), lines 41-57: a worker takes a snapshot of the Bundle and starts a pass
ProcessBegin ==
    /\ pc = "idle"
    /\ passes < MaxPasses
    /\ conds' = bundleStatus
    /\ readyResources' = [n \in Names |-> NoObj]
    /\ checked' = <<>>
    /\ notReady' = {}
    /\ calls' = {}
    /\ statusWrites' = <<>>
    /\ idx' = 1
    /\ LET r == processSetup(bundle)
       IN  IF r.err # NoErr
           THEN /\ pc' = "result"
                /\ procRet' = Return(FALSE, r.err)
                /\ sorted' = <<>>
           ELSE /\ pc' = "loop"
                /\ procRet' = Return(FALSE, NoErr)
                /\ sorted' = r.items
    /\ UNCHANGED <<bundle, bundleStatus, api, store, ret, condsBefore, passes>>

\* process(), lines 61-80: one iteration of the loop over the sorted vertices
VisitVertex ==
    /\ pc = "loop"
    /\ idx <= Len(sorted)
    /\ LET v == sorted[idx]
           res == resourceMap(bundle, v)
       IN  IF ~DepsReady(bundle, v, readyResources)
           THEN /\ idx' = idx + 1
                /\ UNCHANGED <<api, calls, checked, notReady, pc, procRet, readyResources>>
           ELSE \E fault \in Faults, newReady \in BOOLEAN :
                  LET o == checkResource(bundle, res, fault, newReady, api, store, readyResources)
                  IN  /\ \A r \in Refs : o.api[r].present => o.api[r].uid <= MaxUid
                      /\ api' = o.api
                      /\ calls' = calls \cup o.calls
                      /\ checked' = Append(checked, v)
                      /\ notReady' = IF o.notReady THEN notReady \cup {v} ELSE notReady
                      /\ IF ReturnsError(o.retriable, o.err)
                         THEN /\ pc' = "result"
                              /\ procRet' = Return(o.retriable, o.err)
                              /\ UNCHANGED <<idx, readyResources>>
                         ELSE /\ idx' = idx + 1
                              /\ readyResources' = IF o.obj.present
                                                   THEN [readyResources EXCEPT ![v] = o.obj]
                                                   ELSE readyResources
                              /\ UNCHANGED <<pc, procRet>>
    /\ UNCHANGED <<bundle, bundleStatus, conds, store, sorted, ret, statusWrites, condsBefore, passes>>

\* process(), lines 81-87: garbage collection and the return
ProcessEnd ==
    /\ pc = "loop"
    /\ idx > Len(sorted)
    /\ \E listFails \in BOOLEAN, order \in Perms(existingObjs(bundle, store)),
          faults \in [existingObjs(bundle, store) -> DeleteFaults] :
          LET d == deleteRemovedResources(bundle, store, api, listFails, order, faults)
          IN  /\ api' = d.api
              /\ calls' = calls \cup d.calls \cup {Call("list", BundleName, 0)}
              /\ procRet' = IF d.err # NoErr THEN Return(d.retriable, d.err) ELSE Return(FALSE, NoErr)
    /\ pc' = "result"
    /\ UNCHANGED <<bundle, bundleStatus, conds, store, sorted, idx, readyResources, ret, checked,
                   notReady, statusWrites, condsBefore, passes>>

\* handleProcessResult, called by the worker with what process() returned
HandleProcessResult ==
    /\ pc = "result"
    /\ \E answer \in StatusAnswers :
          LET r == handleProcessResult(procRet.retriable, procRet.err, conds,
                                       isBundleReady(bundle, readyResources), answer)
          IN  /\ conds' = r.conds
              /\ ret' = Return(r.retriable, r.err)
              /\ statusWrites' = IF r.wrote THEN Append(statusWrites, answer) ELSE statusWrites
              /\ bundleStatus' = IF r.wrote /\ answer = "ok" THEN r.conds ELSE bundleStatus
    /\ condsBefore' = conds
    /\ pc' = "idle"
    /\ passes' = passes + 1
    /\ UNCHANGED <<bundle, api, store, sorted, idx, readyResources, procRet, checked, notReady, calls>>

-----------------------------------------------------------------------------
(* The environment: the watch layer that fills the store, the host's garbage     *)
(* collector that finishes a foreground deletion, the controllers of the child   *)
(* objects that make them ready.  A pass reads store[r] and writes api[r] once,  *)
(* when it visits the resource of r or collects r; ProcessBegin and              *)
(* HandleProcessResult read neither.  A step of the environment on r therefore   *)
(* commutes with the steps of the pass on the other references, and is taken     *)
(* here at the start of the loop: before the pass looks at r, or, when it comes  *)
(* after, at the start of the next pass.                                         *)

EnvironmentMayStep == pc = "loop" /\ idx = 1

StoreSync(r) ==
    /\ EnvironmentMayStep
    /\ store[r] # api[r]
    /\ store' = [store EXCEPT ![r] = api[r]]
    /\ UNCHANGED <<bundle, bundleStatus, conds, api, pc, sorted, idx, readyResources, procRet, ret,
                   checked, notReady, calls, statusWrites, condsBefore, passes>>

Finalize(r) ==
    /\ EnvironmentMayStep
    /\ api[r].present
    /\ api[r].deleting
    /\ api' = [api EXCEPT ![r] = NoObj]
    /\ UNCHANGED <<bundle, bundleStatus, conds, store, pc, sorted, idx, readyResources, procRet, ret,
                   checked, notReady, calls, statusWrites, condsBefore, passes>>

BecomeReady(r) ==
    /\ EnvironmentMayStep
    /\ api[r].present
    /\ ~api[r].deleting
    /\ ~api[r].ready
    /\ api' = [api EXCEPT ![r].ready = TRUE]
    /\ UNCHANGED <<bundle, bundleStatus, conds, store, pc, sorted, idx, readyResources, procRet, ret,
                   checked, notReady, calls, statusWrites, condsBefore, passes>>

-----------------------------------------------------------------------------
(* Initial states: a Bundle that has not been processed yet.  The API holds      *)
(* either nothing at x and y or a child of an earlier version of the Bundle at    *)
(* each, and at z nothing or a child of any kind: the Bundle's, another           *)
(* controller's, or one being deleted.  The store shows the API's objects, or     *)
(* nothing yet, or the previous incarnation of the Bundle's children (same        *)
(* reference, another UID).                                                       *)

Object(uid, ctrl, label, deleting) ==
    [present |-> TRUE, uid |-> uid, ctrl |-> ctrl, label |-> label, spec |-> "old", refs |-> {},
     deleting |-> deleting, ready |-> TRUE]

Owned == Object(1, "bundle", BundleName, FALSE)

InitObjects == {NoObj, Owned, Object(1, "other", BundleName, FALSE),
                Object(1, "bundle", BundleName, TRUE)}

InitApis == {[x |-> xy, y |-> xy, z |-> z] : xy \in {NoObj, Owned}, z \in InitObjects}

Previous(a) == [r \in Refs |-> IF a[r] = Owned THEN [Owned EXCEPT !.uid = 2] ELSE a[r]]

Init ==
    /\ bundle \in Bundles
    /\ api \in InitApis
    /\ store \in {api, [r \in Refs |-> NoObj], Previous(api)}
    /\ bundleStatus = [t \in CondTypes |-> NoCond]
    /\ conds = [t \in CondTypes |-> NoCond]
    /\ condsBefore = [t \in CondTypes |-> NoCond]
    /\ pc = "idle"
    /\ sorted = <<>>
    /\ idx = 1
    /\ readyResources = [n \in Names |-> NoObj]
    /\ procRet = Return(FALSE, NoErr)
    /\ ret = Return(FALSE, NoErr)
    /\ checked = <<>>
    /\ notReady = {}
    /\ calls = {}
    /\ statusWrites = <<>>
    /\ passes = 0

Next ==
    \/ ProcessBegin
    \/ VisitVertex
    \/ ProcessEnd
    \/ HandleProcessResult
    \/ \E r \in Refs : StoreSync(r)
    \/ \E r \in Refs : Finalize(r)
    \/ \E r \in Refs : BecomeReady(r)

Spec == Init /\ [][Next]_vars

-----------------------------------------------------------------------------
(* Repeated passes.  Every change of the Bundle or of a child puts the Bundle's   *)
(* key back on the work queue, so a pass follows a pass without end; the count    *)
(* of passes, which is history, then forgets the oldest.  The initial states are  *)
(* those of a Bundle of two resources whose names are unique and whose            *)
(* dependencies are declared and acyclic; the API may hold at x a child of the    *)
(* Bundle or an object of another controller, and at z a child that was removed   *)
(* from the Bundle.                                                               *)

Requeue ==
    /\ pc = "idle"
    /\ passes = MaxPasses
    /\ passes' = MaxPasses - 1
    /\ UNCHANGED <<bundle, bundleStatus, conds, api, store, pc, sorted, idx, readyResources,
                   procRet, ret, checked, notReady, calls, statusWrites, condsBefore>>

LiveBundles == {
    [labels |-> "none",    resources |-> <<Res("A", <<>>, "x"), Res("B", <<"A">>, "y")>>],
    [labels |-> "another", resources |-> <<ResOwned("A", <<>>, "x", "nonController"), ResOwned("B", <<"A">>, "y", "controllerOther")>>]
}

LiveApis == {[x |-> a, y |-> NoObj, z |-> Owned] :
                a \in {NoObj, Owned, Object(1, "other", BundleName, FALSE)}}

InitLive ==
    /\ bundle \in LiveBundles
    /\ api \in LiveApis
    /\ store \in {api, [r \in Refs |-> NoObj]}
    /\ bundleStatus = [t \in CondTypes |-> NoCond]
    /\ conds = [t \in CondTypes |-> NoCond]
    /\ condsBefore = [t \in CondTypes |-> NoCond]
    /\ pc = "idle"
    /\ sorted = <<>>
    /\ idx = 1
    /\ readyResources = [n \in Names |-> NoObj]
    /\ procRet = Return(FALSE, NoErr)
    /\ ret = Return(FALSE, NoErr)
    /\ checked = <<>>
    /\ notReady = {}
    /\ calls = {}
    /\ statusWrites = <<>>
    /\ passes = 0

NextLive ==
    \/ ProcessBegin
    \/ VisitVertex
    \/ ProcessEnd
    \/ HandleProcessResult
    \/ Requeue
    \/ \E r \in Refs : StoreSync(r)
    \/ \E r \in Refs : Finalize(r)
    \/ \E r \in Refs : BecomeReady(r)

\* the store, the host's collector and the children's controllers
Environment == \E r \in Refs : StoreSync(r) \/ Finalize(r) \/ BecomeReady(r)

\* the worker goes on (weak fairness); the environment acts again and again whenever it
\* can (strong fairness: in the model it can only at the start of a pass)
Fairness ==
    /\ WF_vars(ProcessBegin)
    /\ WF_vars(Requeue)
    /\ WF_vars(VisitVertex)
    /\ WF_vars(ProcessEnd)
    /\ WF_vars(HandleProcessResult)
    /\ SF_vars(Environment)

LiveSpec == InitLive /\ [][NextLive]_vars /\ Fairness

-----------------------------------------------------------------------------
(* Properties *)

\* process() has returned: the worker holds its result, or has folded it
PassReturned == pc = "result" \/ (pc = "idle" /\ passes > 0)
\* handleProcessResult() has returned
PassFolded == pc = "idle" /\ passes > 0

ResourceCalls == {"get", "create", "update"}
WriteCalls == {"create", "update", "delete"}
CheckedNames == Range(checked)
RefOf(n) == resourceMap(bundle, n).ref
DependsOn(n) == Range(resourceMap(bundle, n).dependsOn)

\* C1: a resource is given to checkResource, and its object is looked up, created or
\* updated, only after every resource of its dependsOn was given to checkResource
\* earlier in the same pass and was put into the ready set.
C1_DependenciesFirst ==
    /\ \A i \in 1..Len(checked) :
          \A d \in DependsOn(checked[i]) :
             /\ \E j \in 1..(i - 1) : checked[j] = d
             /\ readyResources[d].present
    /\ \A c \in calls :
          c.op \in ResourceCalls => \E i \in 1..Len(checked) : RefOf(checked[i]) = c.ref

\* C1 witness: a resource with two dependencies was checked third, after both
C1_Witness ==
    /\ Len(checked) = 3
    /\ DependsOn(checked[3]) = {checked[1], checked[2]}
    /\ Call("create", RefOf(checked[3]), 0) \in calls

\* the resources that depend on n, directly or transitively
RECURSIVE DependentsWithin(_, _)
DependentsWithin(found, k) ==
    IF k = 0 THEN found
    ELSE DependentsWithin(found \cup {m \in DeclaredNames(bundle) : DependsOn(m) \cap found # {}}, k - 1)
Dependents(n) == DependentsWithin({n}, Len(bundle.resources)) \ {n}

InProgressStatus ==
    /\ conds["InProgress"].status = "True"
    /\ conds["Ready"].status = "False"
    /\ conds["Error"].status = "False"

\* C2: when the ready checker says, without error, that a created or updated resource
\* is not ready, the resources depending on it, directly or transitively, are skipped in
\* that pass (nothing is looked up, created or updated for them and they are not in the
\* ready set); that answer does not end the pass with an error, and a pass that returns
\* no error is folded to InProgress=True, Ready=False, Error=False.
C2_NotReadySkipsDependents ==
    \A n \in notReady :
       /\ ~readyResources[n].present
       /\ \A d \in Dependents(n) :
             /\ d \notin CheckedNames
             /\ ~readyResources[d].present
             /\ \A c \in calls : c.op \in ResourceCalls \cup WriteCalls => c.ref # RefOf(d)
       /\ (PassReturned /\ procRet.err # NoErr /\ Call("list", BundleName, 0) \notin calls)
             => checked[Len(checked)] # n
       /\ (PassFolded /\ procRet.err = NoErr) => InProgressStatus

\* C2 witness: A was created and is not ready, its two dependents were skipped, the pass
\* returned no error and was folded
C2_Witness ==
    /\ PassFolded
    /\ procRet.err = NoErr
    /\ Len(bundle.resources) = 3
    /\ notReady = {"A"}
    /\ Call("create", RefOf("A"), 0) \in calls
    /\ checked = <<"A">>
    /\ InProgressStatus

ChildOfBundle(obj) == obj.present /\ obj.ctrl = "bundle" /\ obj.label = BundleName

RemovedInStore ==
    {r \in Refs \ DeclaredRefs(bundle) :
        store[r].present /\ store[r].label = BundleName /\ store[r].ctrl = "bundle" /\ ~store[r].deleting}

\* C4 as stated: after a pass that returned no error, no child object controlled by the
\* Bundle exists in the API under a reference the Bundle does not declare (an object that
\* carries a deletion timestamp is taken as gone).
C4_Original ==
    (PassReturned /\ procRet.err = NoErr)
        => \A r \in Refs \ DeclaredRefs(bundle) : ~(ChildOfBundle(api[r]) /\ ~api[r].deleting)

\* C4 amended: after a pass that returned no error, a Delete with the UID of the store was
\* issued for every child that the store lists for the Bundle, controlled by it, not marked
\* for deletion and not declared, and no such child is left in the API under that UID
\* without a deletion timestamp.
C4_RemovedChildrenDeleted ==
    (PassReturned /\ procRet.err = NoErr)
        => \A r \in RemovedInStore :
              /\ Call("delete", r, store[r].uid) \in calls
              /\ ~(api[r].present /\ api[r].uid = store[r].uid /\ ~api[r].deleting)

\* C4 witness: a removed child was deleted and carries a deletion timestamp, the declared
\* children were left alone
C4_Witness ==
    /\ PassReturned
    /\ procRet.err = NoErr
    /\ RemovedInStore = {"z"}
    /\ api["z"].deleting
    /\ api["z"].uid = store["z"].uid
    /\ \A c \in calls : c.op \in WriteCalls => c.ref = "z"
    /\ Len(checked) = 2

\* every declared resource has, in the store, a child of the Bundle that is ready and
\* whose spec, label and owner references are the ones the Bundle asks for
StoreConverged ==
    \A res \in Declared(bundle) :
       LET o == store[res.ref]
       IN  /\ ChildOfBundle(o)
           /\ ~o.deleting
           /\ o.ready
           /\ o.spec = "new"
           /\ o.refs = DeclaredRefsOf(res) \cup {<<RefOf(d), store[RefOf(d)].uid>> : d \in DependsOn(res.name)}

\* a pass that follows another pass over the same Bundle has returned
LaterPassReturned == (pc = "result" /\ passes >= 1) \/ (pc = "idle" /\ passes >= 2)

\* C5 as stated: a pass that follows a pass which left the Bundle Ready, and finds every
\* declared child in the store with a matching spec and ready, issues no Create, no
\* Update and no Delete.
C5_Original ==
    (LaterPassReturned /\ Declared(bundle) # {} /\ StoreConverged
                       /\ bundleStatus["Ready"].status = "True")
        => \A c \in calls : c.op \notin WriteCalls

\* C5 amended: a pass that finds every declared child in the store with a matching spec
\* and ready, and for which the store lists no removed child of the Bundle that is not
\* marked for deletion, issues no Create, no Update and no Delete; and when its fold
\* leaves the conditions as they were it writes no status.
C5_Idempotent ==
    (PassReturned /\ StoreConverged /\ RemovedInStore = {})
        => /\ \A c \in calls : c.op \notin WriteCalls
           /\ (PassFolded /\ conds = condsBefore) => statusWrites = <<>>

\* C5 witness: the second pass over three ready children looked each of them up and
\* listed the Bundle's objects, wrote nothing and left the Ready status as it was
C5_Witness ==
    /\ PassFolded
    /\ passes = 2
    /\ StoreConverged
    /\ RemovedInStore = {}
    /\ Len(checked) = 3
    /\ Call("list", BundleName, 0) \in calls
    /\ procRet.err = NoErr
    /\ conds = condsBefore
    /\ conds["Ready"].status = "True"
    /\ statusWrites = <<>>

CreateConflictMessage == "object found, but not in Store yet (will re-process)"
UpdateConflictMessage == "object update resulted in conflict (will re-process)"

\* C6: an AlreadyExists answer to Create and a Conflict answer to Update make process()
\* return a non-retriable error whose cause is a conflict; for a process error whose
\* cause is a conflict handleProcessResult leaves the three conditions as they were,
\* writes no status and returns what it was given; a conflict on the status write leaves
\* the Error condition as the fold of the process outcome set it (False for no error).
C6_ConflictsLeaveStatus ==
    /\ (PassReturned /\ procRet.err.msg \in {CreateConflictMessage, UpdateConflictMessage})
          => ~procRet.retriable /\ IsConflict(procRet.err)
    /\ (PassFolded /\ IsConflict(procRet.err))
          => conds = condsBefore /\ statusWrites = <<>> /\ ret = procRet
    /\ (PassFolded /\ statusWrites = <<"conflict">>)
          => /\ (conds["Error"].status = "True") <=> (procRet.err # NoErr)
             /\ procRet.err = NoErr => ret.err = NoErr

\* C6 witness: the second pass got AlreadyExists from Create, and the TerminalError-free
\* conditions of the first pass stayed
C6_Witness ==
    /\ PassFolded
    /\ passes = 2
    /\ procRet.err.msg = CreateConflictMessage
    /\ \E c \in calls : c.op = "create"
    /\ conds = condsBefore
    /\ conds["Error"].status = "False"
    /\ statusWrites = <<>>

\* the names a resource name depends on, read off the Bundle
DirectDependencies(n) == UNION {Range(r.dependsOn) : r \in {q \in Declared(bundle) : q.name = n}}
RECURSIVE DependenciesWithin(_, _)
DependenciesWithin(found, k) ==
    IF k = 0 THEN found
    ELSE DependenciesWithin(found \cup UNION {DirectDependencies(m) : m \in found}, k - 1)
Cyclic == \E n \in DeclaredNames(bundle) :
             n \in DependenciesWithin(DirectDependencies(n), Len(bundle.resources))
Dangling == \E n \in DeclaredNames(bundle) : DirectDependencies(n) \ DeclaredNames(bundle) # {}
Duplicated == Cardinality(DeclaredNames(bundle)) < Len(bundle.resources)
StructuralError == Cyclic \/ Dangling \/ Duplicated

TerminalStatus ==
    /\ conds["InProgress"] = Cond("False", "", "")
    /\ conds["Ready"] = Cond("False", "", "")
    /\ conds["Error"] = Cond("True", "TerminalError", procRet.err.msg)

\* C7 as stated: for a Bundle with a cycle, an undeclared dependency or a duplicate name,
\* process() returns a non-retriable error before any store or API call, and
\* handleProcessResult records the terminal status with exactly one status update.
C7_Original ==
    StructuralError
        => /\ calls = {}
           /\ PassReturned => (procRet.err # NoErr /\ ~procRet.retriable)
           /\ PassFolded => (TerminalStatus /\ Len(statusWrites) = 1)

\* C7 amended: ... handleProcessResult records the terminal status, with exactly one
\* status update when that changes a condition of the Bundle and none when the Bundle
\* carries these conditions already.
C7_StructuralErrorIsTerminal ==
    StructuralError
        => /\ calls = {}
           /\ PassReturned => (procRet.err # NoErr /\ ~procRet.retriable)
           /\ PassFolded => /\ TerminalStatus
                            /\ Len(statusWrites) = IF conds # condsBefore THEN 1 ELSE 0

\* C7 witness: the first pass over a Bundle with a cycle wrote the terminal status once
C7_Witness ==
    /\ Cyclic
    /\ PassFolded
    /\ passes = 1
    /\ TerminalStatus
    /\ Len(statusWrites) = 1
    /\ calls = {}

AllDeclaredReady == \A res \in Declared(bundle) : readyResources[res.name].present
SpecialCase(err) == (err # NoErr /\ err.cause = "Conflict") \/ err = Canceled \/ err = DeadlineExceeded
ReadyExcludesOthers(cs) ==
    cs["Ready"].status = "True" => (cs["InProgress"].status # "True" /\ cs["Error"].status # "True")

\* C8: outside the conflict and cancellation cases handleProcessResult sets the
\* conditions by the table: no error and all declared resources in the ready set:
\* InProgress=False, Ready=True, Error=False; no error and one not in the ready set:
\* True, False, False; retriable error: True, False, True (RetriableError, message the
\* error); terminal error: False, False, True (TerminalError, message the error).  Ready
\* is never True together with InProgress or Error.
C8_FoldTable ==
    /\ (PassFolded /\ ~SpecialCase(procRet.err))
          => CASE procRet.err = NoErr /\ AllDeclaredReady ->
                      /\ conds["InProgress"] = Cond("False", "", "")
                      /\ conds["Ready"] = Cond("True", "", "")
                      /\ conds["Error"] = Cond("False", "", "")
               [] procRet.err = NoErr /\ ~AllDeclaredReady ->
                      /\ conds["InProgress"] = Cond("True", "", "")
                      /\ conds["Ready"] = Cond("False", "", "")
                      /\ conds["Error"] = Cond("False", "", "")
               [] procRet.err # NoErr /\ procRet.retriable ->
                      /\ conds["InProgress"] = Cond("True", "", "")
                      /\ conds["Ready"] = Cond("False", "", "")
                      /\ conds["Error"] = Cond("True", "RetriableError", procRet.err.msg)
               [] procRet.err # NoErr /\ ~procRet.retriable ->
                      /\ conds["InProgress"] = Cond("False", "", "")
                      /\ conds["Ready"] = Cond("False", "", "")
                      /\ conds["Error"] = Cond("True", "TerminalError", procRet.err.msg)
    /\ ReadyExcludesOthers(conds)
    /\ ReadyExcludesOthers(bundleStatus)

\* C8 witness: a Bundle that was Ready had a retriable error in its second pass
C8_Witness ==
    /\ PassFolded
    /\ condsBefore["Ready"].status = "True"
    /\ procRet.retriable
    /\ procRet.err = Failure
    /\ conds["Error"] = Cond("True", "RetriableError", Failed)
    /\ conds["InProgress"].status = "True"
    /\ conds["Ready"].status = "False"

\* C9: for a process error whose cause is a conflict handleProcessResult returns the error
\* and the retriable flag it was given; for context.Canceled and
\* context.DeadlineExceeded it returns the error and retriable=false; in both cases the
\* conditions stay as they were and no status is written.
C9_SpecialCasesBypassFold ==
    PassFolded
        => /\ (procRet.err # NoErr /\ IsConflict(procRet.err))
                 => ret = procRet /\ conds = condsBefore /\ statusWrites = <<>>
           /\ (procRet.err \in {Canceled, DeadlineExceeded})
                 => /\ ret = Return(FALSE, procRet.err)
                    /\ conds = condsBefore
                    /\ statusWrites = <<>>

\* C9 witness: process() returned context.Canceled as retriable; it came back as not
\* retriable and the conditions of the first pass stayed
C9_Witness ==
    /\ PassFolded
    /\ passes = 2
    /\ procRet = Return(TRUE, Canceled)
    /\ ret = Return(FALSE, Canceled)
    /\ conds = condsBefore
    /\ conds["InProgress"].status = "True"
    /\ statusWrites = <<>>

\* C10: handleProcessResult writes the Bundle's status if and only if one of the three
\* conditions changed (status, reason or message), and at most once; when it folded an
\* outcome and none changed it calls the Bundle client not at all and returns what it
\* was given.
C10_WriteIffChanged ==
    PassFolded
        => /\ (Len(statusWrites) = 1) <=> (conds # condsBefore)
           /\ Len(statusWrites) <= 1
           /\ (~SpecialCase(procRet.err) /\ conds = condsBefore) => ret = procRet

\* C10 witness: the second pass ended in the same terminal error as the first; nothing
\* changed and nothing was written
C10_Witness ==
    /\ PassFolded
    /\ passes = 2
    /\ ~SpecialCase(procRet.err)
    /\ procRet.err # NoErr
    /\ \E c \in calls : c.op = "get"
    /\ conds = condsBefore
    /\ statusWrites = <<>>
    /\ ret = procRet

StatusWriteError == Err("failed to set bundle status", "Other")

\* C11: a conflict answer to the status write is swallowed: after a process() without
\* error handleProcessResult returns no error; any other error of the status write is
\* returned, as retriable, when the process error was nil; when the process error was
\* not nil, the process error and its retriable flag are returned whatever the status
\* write answered.
C11_StatusWriteOutcome ==
    (PassFolded /\ Len(statusWrites) = 1)
        => /\ (procRet.err = NoErr /\ statusWrites[1] = "conflict") => ret.err = NoErr
           /\ (procRet.err = NoErr /\ statusWrites[1] = "error") => ret = Return(TRUE, StatusWriteError)
           /\ (procRet.err = NoErr /\ statusWrites[1] = "ok") => ret.err = NoErr
           /\ procRet.err # NoErr => ret = procRet

\* C11 witness: a pass that ended in a terminal error had its status write refused with
\* an error, and the terminal error came back
C11_Witness ==
    /\ PassFolded
    /\ statusWrites = <<"error">>
    /\ procRet.err # NoErr
    /\ ~procRet.retriable
    /\ ret = procRet
    /\ conds["Error"].reason = "TerminalError"

\* the resources checked in this pass whose object the store holds marked for deletion
\* or not controlled by the Bundle
GuardedNames ==
    {n \in CheckedNames :
        LET o == store[RefOf(n)]
        IN  o.present /\ (o.deleting \/ ~IsControlledBy(o))}

GuardMessage(o) ==
    IF o.deleting THEN "object is marked for deletion" ELSE "object is not owned by the Bundle"

\* C12: when the store holds, under the reference of a declared resource, an object that
\* is marked for deletion or that the Bundle does not control, checkResource of that
\* resource fails with a non-retriable error (the guard's own, unless the client or the
\* lookup failed before it) and the pass ends there; no Create, Update or Delete is
\* issued for that object, and the status folds to Error=True with reason
\* TerminalError, InProgress=False, Ready=False.
C12_GuardsOnExistingObject ==
    \A n \in GuardedNames :
       /\ pc # "loop"
       /\ checked[Len(checked)] = n
       /\ procRet.err # NoErr
       /\ ~procRet.retriable
       /\ (Call("get", RefOf(n), 0) \in calls /\ procRet.err # Failure)
             => procRet.err = Err(GuardMessage(store[RefOf(n)]), "Other")
       /\ \A c \in calls : c.op \in WriteCalls => c.ref # RefOf(n)
       /\ Call("list", BundleName, 0) \notin calls
       /\ PassFolded => TerminalStatus

\* C12 witness: the third resource found its object controlled by another owner; the
\* pass ended in the terminal status and that object was neither written nor deleted
C12_Witness ==
    /\ PassFolded
    /\ Len(checked) = 3
    /\ GuardedNames = {checked[3]}
    /\ store[RefOf(checked[3])].ctrl = "other"
    /\ api[RefOf(checked[3])] = store[RefOf(checked[3])]
    /\ procRet.err.msg = "object is not owned by the Bundle"
    /\ TerminalStatus

DeleteCalls == {c \in calls : c.op = "delete"}
\* deleteRemovedResources was entered in this pass and process() has returned
Collected == PassReturned /\ Call("list", BundleName, 0) \in calls

\* C13: the Deletes of a pass go to removed children only: objects the store lists for
\* the Bundle, not marked for deletion, controlled by the Bundle, under a reference the
\* Bundle does not declare; each carries the UID the store shows, and marks the object
\* of that UID for deletion in the API (foreground) instead of removing it; every such
\* object gets its Delete unless the collection ends in an error (the list, or the client
\* of that object, failed); no Delete goes to the reference of a declared resource.
C13_DeletesExactlyRemoved ==
    /\ \A c \in DeleteCalls :
          /\ c.ref \in RemovedInStore
          /\ c.uid = store[c.ref].uid
          /\ c.ref \notin DeclaredRefs(bundle)
    /\ Collected
          => \A r \in RemovedInStore :
                /\ Call("delete", r, store[r].uid) \in calls \/ procRet.err # NoErr
                /\ (Call("delete", r, store[r].uid) \in calls /\ procRet.err = NoErr
                       /\ api[r].present /\ api[r].uid = store[r].uid) => api[r].deleting

\* C13 witness: of three objects the store lists, the declared two were left alone and
\* the removed one got a Delete with its UID and carries a deletion timestamp
C13_Witness ==
    /\ Collected
    /\ procRet.err = NoErr
    /\ DeclaredRefs(bundle) = {"x", "y"}
    /\ \A r \in Refs : store[r].present /\ IsControlledBy(store[r]) /\ ~store[r].deleting
    /\ DeleteCalls = {Call("delete", "z", store["z"].uid)}
    /\ api["z"].deleting
    /\ ~api["x"].deleting /\ ~api["y"].deleting

\* the loop of process() stands before a vertex whose dependencies are all ready
AtVertex == pc = "loop" /\ idx <= Len(sorted) /\ DepsReady(bundle, sorted[idx], readyResources)
\* what checkResource gives for that vertex
CheckHere(fault, newReady) ==
    checkResource(bundle, resourceMap(bundle, sorted[idx]), fault, newReady, api, store, readyResources)

\* the failures of the create-or-update path the claim names
PathFaults == {"client", "get", "create", "update"}
\* an error that is neither a conflict nor an already-exists answer nor raised by the
\* sync task itself
UnknownFailure(err) == err.msg = Failed /\ ~err.wrapped /\ err.cause \in {"Other", "NotFound"}

RetriableStatus ==
    /\ conds["InProgress"] = Cond("True", "", "")
    /\ conds["Ready"] = Cond("False", "", "")
    /\ conds["Error"] = Cond("True", "RetriableError", procRet.err.msg)

\* the last check of the pass issued a Create that left no object behind
CreateFailed ==
    /\ PassReturned
    /\ checked # <<>>
    /\ Call("create", RefOf(checked[Len(checked)]), 0) \in calls
    /\ ~api[RefOf(checked[Len(checked)])].present
\* the last check of the pass ended before the store lookup with a collaborator's error
ClientFailedInCheck ==
    /\ PassReturned
    /\ checked # <<>>
    /\ Call("get", RefOf(checked[Len(checked)]), 0) \notin calls
    /\ procRet.err = Failure

\* C14 as stated: every failure of the client acquisition, the store lookup, Create or
\* Update that is no conflict makes checkResource, and so process(), report retriable.
C14_Original ==
    AtVertex
        => \A fault \in PathFaults, newReady \in BOOLEAN :
              UnknownFailure(CheckHere(fault, newReady).err) => CheckHere(fault, newReady).retriable

\* C14 amended: a failure of Create or Update that is no conflict is reported as
\* retriable and folded to Error=True with reason RetriableError, InProgress=True; a
\* failure to acquire the client or of the store lookup is reported as not retriable and
\* folded to Error=True with reason TerminalError, InProgress=False.
C14_WriteFailuresRetriable ==
    /\ AtVertex
          => \A fault \in PathFaults, newReady \in BOOLEAN :
                UnknownFailure(CheckHere(fault, newReady).err)
                    => (CheckHere(fault, newReady).retriable <=> fault \in {"create", "update"})
    /\ CreateFailed => procRet.retriable /\ UnknownFailure(procRet.err)
    /\ ClientFailedInCheck => ~procRet.retriable
    /\ (PassFolded /\ UnknownFailure(procRet.err))
          => IF procRet.retriable THEN RetriableStatus ELSE TerminalStatus

\* C14 witness: a Create failed, process() reported a retriable error and the status
\* was folded to RetriableError with InProgress=True
C14_Witness ==
    /\ PassFolded
    /\ CreateFailed
    /\ procRet = Return(TRUE, Failure)
    /\ RetriableStatus

\* the Delete of this pass for r was refused with an error that is neither NotFound nor
\* Conflict: the object of that UID is in the API and carries no deletion timestamp
DeleteFailedFor(r) ==
    /\ store[r].present
    /\ Call("delete", r, store[r].uid) \in calls
    /\ api[r].present
    /\ api[r].uid = store[r].uid
    /\ ~api[r].deleting

\* C16 as stated: when a Delete of the collection failed with an error other than
\* NotFound and Conflict, deleteRemovedResources, and so process(), reports retriable,
\* in whatever order the removed objects were visited; not retriable is reported only
\* when no Delete failed so.
C16_Original ==
    (Collected /\ procRet.err # NoErr /\ \E r \in Refs : DeleteFailedFor(r))
        => procRet.retriable

\* the loop of process() is over and deleteRemovedResources is about to run
AtCollection == pc = "loop" /\ idx > Len(sorted)
\* what deleteRemovedResources gives here when the list succeeds
Collect(order, faults) == deleteRemovedResources(bundle, store, api, FALSE, order, faults)
\* the positions of an order at which the client or the Delete fails
Failing(order, faults) == {i \in 1..Len(order) : faults[order[i]] # "none"}
First(S) == CHOOSE i \in S : \A j \in S : i <= j

\* C17: in the collection a Delete answered with NotFound or Conflict counts as done; an
\* error does not end the loop: a Delete is issued for every removed object whose client
\* could be got, whatever failed before it; the error returned is that of the first
\* object, in the order of the loop, for which the client or the Delete failed, and no
\* error when none failed; process() then returns (false, nil).
C17_FirstErrorReturned ==
    /\ AtCollection
          => \A order \in Perms(existingObjs(bundle, store)),
                faults \in [existingObjs(bundle, store) -> DeleteFaults] :
                LET d == Collect(order, faults)
                IN  /\ d.calls = {Call("delete", r, store[r].uid) :
                                     r \in {q \in existingObjs(bundle, store) : faults[q] # "client"}}
                    /\ d.err = IF Failing(order, faults) = {} THEN NoErr
                               ELSE GCFailure(order[First(Failing(order, faults))])
    /\ (Collected /\ procRet.err = NoErr) => procRet = Return(FALSE, NoErr)
    /\ (Collected /\ procRet.err \notin {NoErr, Failure})
          => \E r \in RemovedInStore : procRet.err = GCFailure(r)

\* C17 witness: the Deletes of x and of y both failed and the error of x was returned:
\* y was tried after the first error; the Delete of z, gone from the API already, was
\* answered NotFound and added no error
C17_Witness ==
    /\ Collected
    /\ DeleteFailedFor("x")
    /\ DeleteFailedFor("y")
    /\ procRet = Return(TRUE, GCFailure("x"))
    /\ Call("delete", "z", store["z"].uid) \in calls
    /\ ~api["z"].present

EvalSpecError == Err("cannot create resource with controller owner reference", "Other")
\* the pass ended in checkResource of n with the error of evalSpec
RejectedByEvalSpec(n) ==
    /\ PassReturned
    /\ checked[Len(checked)] = n
    /\ procRet = Return(FALSE, EvalSpecError)

\* C18 as stated: evalSpec fails, terminally, exactly for a resource whose spec declares
\* an owner reference with controller=true that is not the parent Bundle; a declared
\* controller reference to the parent Bundle is not rejected; for a rejected resource
\* nothing is looked up, created or updated.
C18_Original ==
    \A n \in CheckedNames :
       /\ RejectedByEvalSpec(n) <=> resourceMap(bundle, n).owner = "controllerOther"
       /\ RejectedByEvalSpec(n)
             => \A c \in calls : c.op \in ResourceCalls => c.ref # RefOf(n)

\* the positions of the references with controller=true
Controllers(refs) == {i \in 1..Len(refs) : refs[i].controller}

\* C19: the object evalSpec produces has exactly one owner reference with
\* controller=true, and it names the Bundle; for every dependsOn entry a non-controller
\* reference that carries the UID of the dependency's object in the ready set, and no
\* other references than these and the declared ones; blockOwnerDeletion=true on every
\* reference; a bundleName label that is the Bundle's name whatever the labels of the
\* Bundle and of the spec say for that key, the spec's labels going before the Bundle's.
\* The objects created in the pass carry that controller, label and references.
C19_StampedObject ==
    /\ AtVertex
          => LET res == resourceMap(bundle, sorted[idx])
                 ev == evalSpec(bundle, res, readyResources)
                 refs == ownerReferences(bundle, res, readyResources)
                 deps == {j \in 1..Len(refs) : ~refs[j].controller /\ refs[j].name \in Refs}
             IN  ev.err = NoErr
                   => /\ Cardinality(Controllers(refs)) = 1
                      /\ \A i \in Controllers(refs) : refs[i].name = BundleName
                      /\ ev.spec.ctrl = "bundle"
                      /\ \A d \in DependsOn(res.name) :
                            /\ readyResources[d].present
                            /\ \E j \in deps : refs[j].name = RefOf(d) /\ refs[j].uid = readyResources[d].uid
                      /\ Cardinality(deps) = Cardinality(DependsOn(res.name))
                      /\ Len(refs) = Len(GetOwnerReferences(res)) + 1 + Len(res.dependsOn)
                      /\ \A i \in 1..Len(refs) : refs[i].block
                      /\ ev.spec.refs = {<<refs[i].name, refs[i].uid>> : i \in (1..Len(refs)) \ Controllers(refs)}
                      /\ ev.spec.label = BundleName
                      /\ res.label # "none" => mergeLabels(<<bundle.labels, res.label>>) = res.label
    /\ \A n \in CheckedNames :
          (Call("create", RefOf(n), 0) \in calls /\ api[RefOf(n)].present /\ api[RefOf(n)].spec = "new")
              => /\ ChildOfBundle(api[RefOf(n)])
                 /\ \A d \in DependsOn(n) : <<RefOf(d), readyResources[d].uid>> \in api[RefOf(n)].refs

\* C19 witness: a Bundle whose labels and whose resource's labels give another value
\* for the bundleName key, and whose resource declares a non-controller owner: the object
\* was created with the Bundle's name as label, the Bundle as controller and the declared
\* reference kept
C19_Witness ==
    /\ bundle.labels = "another"
    /\ checked # <<>>
    /\ resourceMap(bundle, checked[1]).label = "other"
    /\ Call("create", RefOf(checked[1]), 0) \in calls
    /\ ChildOfBundle(api[RefOf(checked[1])])
    /\ api[RefOf(checked[1])].refs = {<<"external", 0>>}

\* a resource is in the ready set only if this pass checked it, looked its object up
\* (then created it, updated it or found it equal), and the ready checker said ready;
\* and only with all of its dependencies
ReadySetSound ==
    \A n \in Names :
       readyResources[n].present
          => /\ n \in CheckedNames
             /\ n \notin notReady
             /\ Call("get", RefOf(n), 0) \in calls
             /\ readyResources[n].ready
             /\ ChildOfBundle(readyResources[n])
             /\ \A d \in DependsOn(n) : readyResources[d].present
\* the ready set is empty when a pass starts, and keeps its entries while the pass runs
ReadySetGrows ==
    /\ (pc = "idle" /\ pc' # "idle") => \A n \in Names : ~readyResources'[n].present
    /\ pc = "loop" => \A n \in Names : readyResources[n].present => readyResources'[n] = readyResources[n]

\* C20: at every point of a pass a resource is in the ready set only if in this pass
\* its object was created, updated or found equal and the ready checker said ready
\* without error, and every resource in the ready set has all its dependsOn entries in
\* the ready set; the ready set starts empty in each pass and no entry is removed or
\* replaced during the pass.
C20_ReadySet == []ReadySetSound /\ [][ReadySetGrows]_vars

\* C20 witness: three resources in the ready set, the third depending on the other two
C20_Witness ==
    /\ pc = "loop"
    /\ \A n \in Names : readyResources[n].present
    /\ Cardinality(DependsOn(checked[3])) = 2
    /\ notReady = {}

\* every declared resource has its child, no removed child is left, the Bundle is Ready
Converged ==
    /\ \A res \in Declared(bundle) : ChildOfBundle(api[res.ref]) /\ ~api[res.ref].deleting
    /\ \A r \in Refs \ DeclaredRefs(bundle) : ~ChildOfBundle(api[r])
    /\ bundleStatus["Ready"].status = "True"
    /\ bundleStatus["InProgress"].status = "False"
    /\ bundleStatus["Error"].status = "False"

\* no spec declares a controller owner reference, and no declared reference is held by
\* an object that the Bundle does not control
Convergeable ==
    /\ ~StructuralError
    /\ \A res \in Declared(bundle) :
          /\ ~DeclaresController(res)
          /\ api[res.ref].present => IsControlledBy(api[res.ref])

\* convergence is left only by a pass that met an error
LeftOnlyByError ==
    (Converged /\ ~Converged') => (pc = "result" /\ procRet.err # NoErr)

\* a step in which a call fails for a reason that is not the state of the API or of the
\* store: a collaborator of checkResource answers with an error, the collection ends in
\* an error, the status write is refused
FaultStep ==
    \/ /\ pc = "loop" /\ pc' = "result" /\ checked' # checked
       /\ procRet'.err \in {Failure, Canceled, DeadlineExceeded, Err(Failed, "Conflict")}
    \/ /\ pc = "loop" /\ pc' = "result" /\ checked' = checked
       /\ procRet'.err # NoErr
    \/ /\ pc = "result"
       /\ statusWrites' \in {<<"conflict">>, <<"error">>}
\* the calls eventually succeed
FaultsCease == <>[][~FaultStep]_vars

LoopEntered == PassReturned /\ processSetup(bundle).err = NoErr
\* process() returned from inside the loop, at the vertex sorted[idx]
ReturnedInLoop == LoopEntered /\ idx <= Len(sorted)
\* the resources behind that vertex in the sorted order
Later == {sorted[i] : i \in (idx + 1)..Len(sorted)}

\* a pass that returned from inside the loop returned an error, looked at no later
\* resource and did not collect; a pass that went through the loop collected, and
\* left out only resources with a dependency outside the ready set
FailFastPass ==
    /\ ReturnedInLoop =>
          /\ procRet.err # NoErr
          /\ checked # <<>> /\ checked[Len(checked)] = sorted[idx]
          /\ \A n \in Later :
                /\ n \notin CheckedNames
                /\ \A c \in calls : c.op \in ResourceCalls => c.ref # RefOf(n)
          /\ Call("list", BundleName, 0) \notin calls
          /\ DeleteCalls = {}
    /\ (LoopEntered /\ ~ReturnedInLoop) =>
          /\ Call("list", BundleName, 0) \in calls
          /\ \A n \in Range(sorted) :
                \/ n \in CheckedNames
                \/ \E d \in DependsOn(n) : ~readyResources[d].present

\* the step that gives a vertex to checkResource ends the pass with the error and the
\* flag of checkResource, and goes on to the next vertex when there is no error, the
\* resource being ready or not
FailFastStep ==
    (AtVertex /\ checked' # checked) =>
        \E fault \in Faults, newReady \in BOOLEAN :
           LET o == CheckHere(fault, newReady)
           IN  /\ api' = o.api
               /\ calls' = calls \cup o.calls
               /\ notReady' = IF o.notReady THEN notReady \cup {sorted[idx]} ELSE notReady
               /\ IF o.err # NoErr
                  THEN pc' = "result" /\ procRet' = Return(o.retriable, o.err) /\ idx' = idx
                  ELSE pc' = "loop" /\ procRet' = procRet /\ idx' = idx + 1

\* C21: when checkResource returns an error for a resource (an error of the ready
\* checker included), process() returns that error and its retriable flag at once: no
\* store lookup, Create or Update is issued for a resource later in the sorted order,
\* deleteRemovedResources does not run and the pass issues no Delete.  When resources
\* are only skipped or not ready, the traversal goes on and the collection runs.
C21_FailFast == []FailFastPass /\ [][FailFastStep]_vars

\* C21 witness: the object of a resource was created, the ready checker then failed,
\* and a later resource that depends on nothing was left alone
C21_Witness ==
    /\ ReturnedInLoop
    /\ idx < Len(sorted)
    /\ \E c \in calls : c.op = "create" /\ c.ref = RefOf(sorted[idx])
    /\ procRet = Return(TRUE, Failure)
    /\ DependsOn(sorted[idx + 1]) = {}

\* the process errors handleProcessResult is tried with where a pass has returned
ProcessErrors ==
    {NoErr, procRet.err, Failure, Canceled, DeadlineExceeded, Err(Failed, "Conflict"),
     Wrapf(Err(Failed, "Conflict"), CreateConflictMessage)}

\* handleProcessResult on the conditions the worker holds: with a nil process error and
\* a changed condition the write is made and the result is retriable, with the error
\* of the write if it is not a conflict; (false, nil) needs unchanged conditions, a nil
\* process error and a flag passed as false
RetriableAfterWrite ==
    pc = "result" =>
        \A retriable \in BOOLEAN, bundleReady \in BOOLEAN, answer \in StatusAnswers :
           /\ LET r == handleProcessResult(retriable, NoErr, conds, bundleReady, answer)
              IN  r.conds # conds =>
                     /\ r.wrote
                     /\ r.retriable
                     /\ r.err = (IF answer = "error" THEN StatusWriteError ELSE NoErr)
           /\ \A processErr \in ProcessErrors :
                 LET r == handleProcessResult(retriable, processErr, conds, bundleReady, answer)
                 IN  (r.err = NoErr /\ ~r.retriable) =>
                        (r.conds = conds /\ ~r.wrote /\ ~retriable /\ processErr = NoErr)

\* C22: called with a nil process error, when the fold changes a condition,
\* handleProcessResult returns retriable=true whatever the status write does: (true,
\* nil) when the write succeeds or its conflict is swallowed, (true, write error)
\* otherwise.  It returns a nil error with retriable=false only when no condition
\* changed and the caller passed retriable=false.
C22_RetriableAfterWrite ==
    /\ RetriableAfterWrite
    /\ (PassFolded /\ procRet.err = NoErr /\ conds # condsBefore) =>
          /\ Len(statusWrites) = 1
          /\ ret = Return(TRUE, IF statusWrites[1] = "error" THEN StatusWriteError ELSE NoErr)
    /\ (PassFolded /\ ret = Return(FALSE, NoErr)) =>
          /\ conds = condsBefore
          /\ statusWrites = <<>>
          /\ procRet = Return(FALSE, NoErr)

\* C22 witness: a pass without error made the Bundle ready, the status write met a
\* conflict that was swallowed, and the result is (true, nil)
C22_Witness ==
    /\ PassFolded
    /\ procRet = Return(FALSE, NoErr)
    /\ conds # condsBefore
    /\ conds["Ready"].status = "True"
    /\ statusWrites = <<"conflict">>
    /\ ret = Return(TRUE, NoErr)

====
